---- MODULE Spec2Model ----
(***************************************************************************)
(* Task-master backend (src/server.js): an Express application over a      *)
(* PostgreSQL pool.  The state is the database (tables users and tasks     *)
(* with their SERIAL sequences), the position of initializeDatabase, the   *)
(* wall clock, the bearer tokens signed so far and the registrations that   *)
(* are past their bcrypt await.  A handler is an operator from the request *)
(* and the state to its response and the store it leaves; the response is  *)
(* not kept in the state.                                                  *)
(*                                                                         *)
(* Every handler issues exactly one SQL statement, which PostgreSQL runs   *)
(* atomically; a handler is therefore one action, taken at the moment its  *)
(* statement runs.  POST /register awaits bcrypt.hash before its INSERT    *)
(* and is modelled in two steps so that registrations overlap.             *)
(***************************************************************************)
EXTENDS Integers, Sequences, FiniteSets, TLC

VARIABLES
    initPc,     \* position of initializeDatabase: "users", "tasks", "done", "failed"
    tables,     \* the tables that exist in the database
    users,      \* rows of table users
    userSeq,    \* last value handed out by users_id_seq
    pending,    \* registrations between bcrypt.hash and their INSERT
    tasks,      \* rows of table tasks
    taskSeq,    \* last value handed out by tasks_id_seq
    now,        \* wall clock, in seconds
    issued,     \* tokens signed by POST /login
    createdBy,  \* history: for each task id ever inserted, the req.user.id of its POST /tasks
    inflight    \* task requests past the guard and validation, awaiting their statement

vars ==
    <<initPc, tables, users, userSeq, pending, tasks, taskSeq, now, issued, createdBy, inflight>>

-----------------------------------------------------------------------------
(* Bounds of the model. *)

\* values drawn from users_id_seq when registration is explored
MaxUserSeq == 3
\* registrations in flight at once
MaxPending == 2
\* tokens signed
MaxTokens == 2
\* clock steps taken when token expiry is explored
MaxTicks == 2
\* seconds per clock step
TickSeconds == 1800
\* owners registered when their tasks are explored
MaxOwners == 2
\* rows ever inserted into tasks
MaxTasks == 2
\* the bound of what a profile does not vary
Few == 1

-----------------------------------------------------------------------------
(* JavaScript and SQL values.  A request field is undefined (absent), null *)
(* or a string; a column is NULL, a string or a timestamp.                 *)

Undefined == [t |-> "undefined"]

Null == [t |-> "null"]

Str(s) == [t |-> "string", v |-> s]

Num(n) == [t |-> "number", v |-> n]

Timestamp(n) == [t |-> "timestamp", v |-> n]

\* JavaScript !x
Falsy(j) ==
    \/ j.t \in {"undefined", "null"}
    \/ j.t = "string" /\ j.v = ""
    \/ j.t = "number" /\ j.v = 0

\* node-postgres sends undefined as NULL
Param(j) == IF j.t = "undefined" THEN Null ELSE j

\* JavaScript x || null
OrNull(j) == IF Falsy(j) THEN Null ELSE j

\* the parameter itself, without COALESCE
CoalesceFirst(a, b) == a

\* SQL COALESCE(a, b)
Coalesce(a, b) == IF a.t # "null" THEN a ELSE b

\* PostgreSQL's timestamp input: the instant a literal denotes, -1 when the
\* literal has no valid syntax
TimestampIn(s) ==
    CASE s = "2024-01-01" -> 1
      [] s = "2024-01-02" -> 2
      [] s = "2024-01-03" -> 3
      [] OTHER -> -1

\* a parameter bound to a TIMESTAMP: NULL stays NULL, a string is parsed;
\* t = "error" is PostgreSQL's invalid_datetime_format
BindTimestamp(p) ==
    IF p.t = "null" THEN Null
    ELSE IF p.t = "string" /\ TimestampIn(p.v) >= 0 THEN Timestamp(TimestampIn(p.v))
    ELSE [t |-> "error"]

-----------------------------------------------------------------------------
(* Responses. *)

NoRows == <<>>

NoToken == [malformed |-> TRUE]

\* status 0: the handler ended without sending anything
Response(status, sends, user, rows, token, id) ==
    [status |-> status, sends |-> sends, user |-> user, rows |-> rows,
     token |-> token, id |-> id]

Plain(status) == Response(status, 1, 0, NoRows, NoToken, 0)

-----------------------------------------------------------------------------
(* Construction: lines 8-89 run synchronously.  app.listen is called and   *)
(* initializeDatabase has issued its first statement, which has not run.   *)

Init ==
    /\ initPc = "users"
    /\ tables = {}
    /\ users = {}
    /\ userSeq = 0
    /\ pending = <<>>
    /\ tasks = {}
    /\ taskSeq = 0
    /\ now = 0
    /\ issued = {}
    /\ createdBy = {}
    /\ inflight = {}

(* initializeDatabase: two CREATE TABLE IF NOT EXISTS statements in a try  *)
(* block; a failure of either is logged and the function returns.          *)
InitializeDatabase(ok) ==
    /\ initPc \in {"users", "tasks"}
    /\ IF ok
         THEN /\ tables' = tables \cup {initPc}
              /\ initPc' = IF initPc = "users" THEN "tasks" ELSE "done"
         ELSE /\ tables' = tables
              /\ initPc' = "failed"
    /\ UNCHANGED <<users, userSeq, pending, tasks, taskSeq, now, issued, createdBy, inflight>>

\* the clock advances
Tick(step, maxTicks) ==
    /\ now + step <= maxTicks * step
    /\ now' = now + step
    /\ UNCHANGED <<initPc, tables, users, userSeq, pending, tasks, taskSeq, issued, createdBy, inflight>>

-----------------------------------------------------------------------------
(* Passwords and tokens. *)

\* bcrypt.hash(password, 10): one-way, never the plaintext
BcryptHash(password) == "$2b$10$" \o password

BcryptCompareAny(password, hash) == TRUE

\* bcrypt.compare(password, hash)
BcryptCompare(password, hash) == hash = BcryptHash(password)

\* process.env.JWT_SECRET || "your_jwt_secret"
JwtSecret == "your_jwt_secret"

\* expiresIn: "1h", in seconds
ExpiresIn == 3600

\* jwt.sign({id, username}, secret, {expiresIn: "1h"}) at time `at`
JwtSign(user, at) ==
    [malformed |-> FALSE, id |-> user.id, username |-> user.username,
     iat |-> at, exp |-> at + ExpiresIn, key |-> JwtSecret]

JwtVerifyLate(token, at) ==
    /\ ~token.malformed
    /\ token.key = JwtSecret
    /\ at <= token.exp

\* jwt.verify's err is null: well formed, signed with the secret, not expired
JwtVerify(token, at) ==
    /\ ~token.malformed
    /\ token.key = JwtSecret
    /\ at < token.exp

-----------------------------------------------------------------------------
(* POST /register *)

RegisterInvalid(body) ==
    \/ Falsy(body.username)
    \/ Falsy(body.email)
    \/ Falsy(body.password)
    \/ body.password.t # "string"

\* res.status(400).send(...).json(...): send answers the request, json then
\* sends on the same response and throws; status 400, two sends attempted
RegisterRefusal == Response(400, 2, 0, NoRows, NoToken, 0)

(* Up to the await of bcrypt.hash.  On invalid input the handler sends     *)
(* 400 and then calls .json on the same response, which throws after the   *)
(* headers are sent: two sends attempted, one response received.           *)
RegisterStart(body, maxPending) ==
    IF RegisterInvalid(body)
      THEN UNCHANGED vars
      ELSE /\ Len(pending) < maxPending
           /\ pending' = Append(pending,
                  [username |-> body.username.v, email |-> body.email.v,
                   password |-> BcryptHash(body.password.v), body |-> body])
           /\ UNCHANGED <<initPc, tables, users, userSeq, tasks, taskSeq, now, issued, createdBy, inflight>>

UserRowFirst(r, id) ==
    [id |-> 1, username |-> r.username, email |-> r.email, password |-> r.password]

\* the users row an INSERT of registration r would add, with the next id
UserRow(r, id) ==
    [id |-> id, username |-> r.username, email |-> r.email, password |-> r.password]

NeverTaken(email) == FALSE

\* email VARCHAR(255) NOT NULL UNIQUE
EmailTaken(email) == \E u \in users : u.email = email

(* INSERT INTO users ... RETURNING id, and the response.  A missing table  *)
(* raises 42P01; nextval is consumed before the unique index raises 23505. *)
(* Outcome: the response, the new rows and the new sequence value.         *)
RegisterOutcome(r) ==
    IF "users" \notin tables
      \* catch, err.code # "23505": console.error(..., error) names an
      \* undefined variable and throws; nothing is sent
      THEN [resp |-> Response(0, 0, 0, NoRows, NoToken, 0), users |-> users, userSeq |-> userSeq]
    ELSE IF EmailTaken(r.email)
      THEN [resp |-> Plain(409), users |-> users, userSeq |-> userSeq + 1]
    ELSE [resp |-> Response(201, 1, 0, NoRows, NoToken, userSeq + 1),
          users |-> users \cup {UserRow(r, userSeq + 1)},
          userSeq |-> userSeq + 1]

Without(s, i) == SubSeq(s, 1, i - 1) \o SubSeq(s, i + 1, Len(s))

RegisterInsert(i, maxUserSeq) ==
    /\ i \in 1..Len(pending)
    /\ LET out == RegisterOutcome(pending[i]) IN
         /\ out.userSeq <= maxUserSeq
         /\ users' = out.users
         /\ userSeq' = out.userSeq
    /\ pending' = Without(pending, i)
    /\ UNCHANGED <<initPc, tables, tasks, taskSeq, now, issued, createdBy, inflight>>

-----------------------------------------------------------------------------
(* POST /login *)

NoUser == [id |-> 0]

\* SELECT * FROM users WHERE email = $1 OR username = $1
UsersMatching(identifier) ==
    {u \in users : u.email = identifier \/ u.username = identifier}

\* userResult.rows[0]: the statement has no ORDER BY, any matching row may be first
FirstRows(identifier) ==
    IF UsersMatching(identifier) = {} THEN {NoUser} ELSE UsersMatching(identifier)

\* the response of POST /login when rows[0] is `user`
LoginOutcome(body, user) ==
    IF Falsy(body.emailOrUsername) \/ Falsy(body.password) THEN Plain(400)
    ELSE IF "users" \notin tables THEN Plain(500)
    ELSE IF user = NoUser THEN Plain(404)
    ELSE IF ~BcryptCompare(body.password.v, user.password) THEN Plain(401)
    ELSE Response(200, 1, 0, NoRows, JwtSign(user, now), 0)

Login(body, maxTokens) ==
    \E user \in (IF Falsy(body.emailOrUsername) THEN {NoUser}
                 ELSE FirstRows(body.emailOrUsername.v)) :
      LET out == LoginOutcome(body, user) IN
        /\ out.status = 200 =>
              \/ out.token \in issued
              \/ Cardinality(issued) < maxTokens
        /\ issued' = IF out.status = 200 THEN issued \cup {out.token} ELSE issued
        /\ UNCHANGED <<initPc, tables, users, userSeq, pending, tasks, taskSeq, now, createdBy, inflight>>

-----------------------------------------------------------------------------
(* authenticateToken *)

NoHeader == [kind |-> "absent"]

\* "Bearer" or "Bearer ": split(" ")[1] is undefined or ""
SchemeOnly == [kind |-> "scheme"]

Bearer(token) == [kind |-> "token", token |-> token]

\* status 200 stands for next(): req.user is the token's payload
Authenticate(header) ==
    IF header.kind # "token" THEN [status |-> 401, id |-> 0]
    ELSE IF ~JwtVerify(header.token, now) THEN [status |-> 403, id |-> 0]
    ELSE [status |-> 200, id |-> header.token.id]

\* the outcome of a task handler: its response and what it leaves in the store
Outcome(response, rows, seq) == [resp |-> response, tasks |-> rows, taskSeq |-> seq]

Unchanged(response) == Outcome(response, tasks, taskSeq)

Rows(status, user, rows) == Response(status, 1, user, rows, NoToken, 0)

Reply(status, user) == Rows(status, user, NoRows)

-----------------------------------------------------------------------------
(* Result order.  ORDER BY fixes the order of rows with different keys     *)
(* only; rows with equal keys come in any order.                           *)

\* the sequences that list each row of S once
Enumerations(S) ==
    {s \in [1..Cardinality(S) -> S] : \A i, j \in 1..Cardinality(S) : i # j => s[i] # s[j]}

\* ORDER BY created_at DESC
NewestFirst(S) ==
    {s \in Enumerations(S) :
        \A i, j \in 1..Cardinality(S) : i < j => s[i].created_at >= s[j].created_at}

\* ORDER BY deadline DESC: NULLs first, then later deadlines first
DeadlineKey(t) == IF t.deadline.t = "null" THEN 1000000 ELSE t.deadline.v

LatestDeadlineFirst(S) ==
    {s \in Enumerations(S) :
        \A i, j \in 1..Cardinality(S) : i < j => DeadlineKey(s[i]) >= DeadlineKey(s[j])}

-----------------------------------------------------------------------------
(* POST /tasks *)

validPriorities == {"low", "medium", "high"}

validStatuses == {"pending", "in-progress", "completed"}

\* !validPriorities.includes(priority)
InvalidPriority(priority) == ~(priority.t = "string" /\ priority.v \in validPriorities)

\* status && !validStatuses.includes(status)
InvalidStatus(status) ==
    ~Falsy(status) /\ ~(status.t = "string" /\ status.v \in validStatuses)

\* the row with the values for id and user_id in each other's place
TaskRowSwapped(id, user, body, at) ==
    [id |-> user, user_id |-> id,
     title |-> Param(body.title),
     description |-> Param(body.description),
     status |-> Param(body.status),
     priority |-> Param(body.priority),
     deadline |-> BindTimestamp(Param(body.deadline)),
     created_at |-> at]

\* the row INSERT INTO tasks ... RETURNING * adds
TaskRow(id, user, body, at) ==
    [id |-> id, user_id |-> user,
     title |-> Param(body.title),
     description |-> Param(body.description),
     status |-> Param(body.status),
     priority |-> Param(body.priority),
     deadline |-> BindTimestamp(Param(body.deadline)),
     created_at |-> at]

NextTaskIdReused == Cardinality(tasks) + 1

\* id SERIAL PRIMARY KEY: nextval of the sequence, which never goes back
NextTaskId == taskSeq + 1

\* the INSERT of POST /tasks for req.user.id = user, and the response
CreateStatement(user, body) ==
    IF "tasks" \notin tables THEN Unchanged(Reply(500, user))
    ELSE IF BindTimestamp(Param(body.deadline)).t = "error" THEN Unchanged(Reply(500, user))
    ELSE LET row == TaskRow(NextTaskId, user, body, now) IN
         Outcome(Rows(201, user, <<row>>), tasks \cup {row}, taskSeq + 1)

\* the three checks of POST /tasks that answer 400
CreateInvalid(body) ==
    \/ Falsy(body.title) \/ Falsy(body.priority)
    \/ InvalidPriority(body.priority)
    \/ InvalidStatus(body.status)

CreateOutcome(header, body) ==
    LET auth == Authenticate(header) IN
    IF auth.status # 200 THEN Unchanged(Plain(auth.status))
    ELSE IF CreateInvalid(body) THEN Unchanged(Reply(400, auth.id))
    ELSE CreateStatement(auth.id, body)

-----------------------------------------------------------------------------
(* GET /tasks *)

\* the list query without its WHERE clause
TasksOfAnyone(user) == tasks

\* SELECT * FROM tasks WHERE user_id = $1
TasksOf(user) == {t \in tasks : t.user_id = user}

\* the rows GET /tasks may return, in order
ListRows(user) == NewestFirst(TasksOf(user))

ListOutcome(header, rows) ==
    LET auth == Authenticate(header) IN
    IF auth.status # 200 THEN Unchanged(Plain(auth.status))
    ELSE IF "tasks" \notin tables THEN Unchanged(Reply(500, auth.id))
    ELSE Unchanged(Rows(200, auth.id, rows))

-----------------------------------------------------------------------------
(* PUT /tasks/:id *)

MatchingAnyOwner(id, user) == {t \in tasks : t.id = id}

\* WHERE id = $n AND user_id = $m
Matching(id, user) == {t \in tasks : t.id = id /\ t.user_id = user}

\* the SET clause applied to row t
Updated(t, body) ==
    [t EXCEPT
        !.title = Coalesce(Param(body.title), t.title),
        !.description = Coalesce(Param(body.description), t.description),
        !.status = Coalesce(Param(body.status), t.status),
        !.priority = Coalesce(Param(body.priority), t.priority),
        !.deadline = Coalesce(BindTimestamp(Param(body.deadline)), t.deadline)]

NothingToUpdate(body) ==
    /\ Falsy(body.title)
    /\ Falsy(body.description)
    /\ Falsy(body.status)
    /\ Falsy(body.priority)
    /\ Falsy(body.deadline)

UpdateStatementUpsert(user, id, body) ==
    LET blank == [id |-> id, user_id |-> user, title |-> Null, description |-> Null,
                  status |-> Null, priority |-> Null, deadline |-> Null,
                  created_at |-> now]
        old == IF Matching(id, user) = {} THEN blank
               ELSE CHOOSE t \in Matching(id, user) : TRUE
        new == Updated(old, body) IN
    IF "tasks" \notin tables THEN Unchanged(Reply(500, user))
    ELSE IF BindTimestamp(Param(body.deadline)).t = "error" THEN Unchanged(Reply(500, user))
    ELSE Outcome(Rows(200, user, <<new>>), {t \in tasks : t.id # id} \cup {new}, taskSeq)

\* the UPDATE of PUT /tasks/:id for req.user.id = user, and the response
UpdateStatement(user, id, body) ==
    IF "tasks" \notin tables THEN Unchanged(Reply(500, user))
    ELSE IF BindTimestamp(Param(body.deadline)).t = "error" THEN Unchanged(Reply(500, user))
    ELSE IF Matching(id, user) = {} THEN Unchanged(Reply(404, user))
    ELSE LET old == CHOOSE t \in Matching(id, user) : TRUE
             new == Updated(old, body) IN
         Outcome(Rows(200, user, <<new>>), (tasks \ {old}) \cup {new}, taskSeq)

UpdateOutcome(header, id, body) ==
    LET auth == Authenticate(header) IN
    IF auth.status # 200 THEN Unchanged(Plain(auth.status))
    ELSE IF NothingToUpdate(body) THEN Unchanged(Reply(400, auth.id))
    ELSE UpdateStatement(auth.id, id, body)

-----------------------------------------------------------------------------
(* DELETE /tasks/:id *)

\* the DELETE of DELETE /tasks/:id for req.user.id = user, and the response
DeleteStatement(user, id) ==
    IF "tasks" \notin tables THEN Unchanged(Reply(500, user))
    ELSE IF Matching(id, user) = {} THEN Unchanged(Reply(404, user))
    ELSE Outcome(Reply(200, user), tasks \ Matching(id, user), taskSeq)

DeleteOutcome(header, id) ==
    LET auth == Authenticate(header) IN
    IF auth.status # 200 THEN Unchanged(Plain(auth.status))
    ELSE DeleteStatement(auth.id, id)

-----------------------------------------------------------------------------
(* GET /tasks/filter *)

\* Date.parse(s): the instant, -1 for NaN
DateParse(s) ==
    CASE s = "2024-01-01" -> 1
      [] s = "2024-01-02" -> 2
      [] s = "2024-01-03" -> 3
      [] OTHER -> -1

\* due_date && isNaN(Date.parse(due_date))
InvalidDueDate(due) == ~Falsy(due) /\ ~(due.t = "string" /\ DateParse(due.v) >= 0)

\* due_date ? new Date(due_date) : null
DueParam(due) == IF Falsy(due) THEN Null ELSE Timestamp(DateParse(due.v))

FilterWhereBefore(t, user, status, priority, due) ==
    /\ t.user_id = user
    /\ (status.t = "null" \/ t.status = status)
    /\ (priority.t = "null" \/ t.priority = priority)
    /\ (due.t = "null" \/ (t.deadline.t # "null" /\ t.deadline.v < due.v))

\* the WHERE clause of the filter query on row t; a comparison with a NULL
\* column is not true
FilterWhere(t, user, status, priority, due) ==
    /\ t.user_id = user
    /\ (status.t = "null" \/ t.status = status)
    /\ (priority.t = "null" \/ t.priority = priority)
    /\ (due.t = "null" \/ (t.deadline.t # "null" /\ t.deadline.v <= due.v))

FilterMatches(user, query) ==
    {t \in tasks :
        FilterWhere(t, user, OrNull(query.status), OrNull(query.priority),
                    DueParam(query.due_date))}

\* the rows GET /tasks/filter may return, in order
FilterRows(user, query) == NewestFirst(FilterMatches(user, query))

FilterOutcome(header, query, rows) ==
    LET auth == Authenticate(header) IN
    IF auth.status # 200 THEN Unchanged(Plain(auth.status))
    ELSE IF InvalidDueDate(query.due_date) THEN Unchanged(Reply(400, auth.id))
    ELSE IF "tasks" \notin tables THEN Unchanged(Reply(500, auth.id))
    ELSE Unchanged(Rows(200, auth.id, rows))

-----------------------------------------------------------------------------
(* GET /tasks/search *)

UpperCase == "ABCDEFGHIJKLMNOPQRSTUVWXYZ"

LowerCase == "abcdefghijklmnopqrstuvwxyz"

\* the lower-case letter of each upper-case letter
LowerOf ==
    [c \in {SubSeq(UpperCase, i, i) : i \in 1..Len(UpperCase)} |->
        LET i == CHOOSE k \in 1..Len(UpperCase) : SubSeq(UpperCase, k, k) = c
        IN SubSeq(LowerCase, i, i)]

RECURSIVE Lower(_)
\* lower(s)
Lower(s) ==
    IF s = "" THEN ""
    ELSE (IF Head(s) \in DOMAIN LowerOf THEN LowerOf[Head(s)] ELSE Head(s)) \o Lower(Tail(s))

RECURSIVE Like(_, _)
\* SQL s LIKE p: % matches any run of characters, _ any one character,
\* \ makes the next pattern character literal
Like(s, p) ==
    IF p = "" THEN s = ""
    ELSE IF Head(p) = "%" THEN Like(s, Tail(p)) \/ (s # "" /\ Like(Tail(s), p))
    ELSE IF s = "" THEN FALSE
    ELSE IF Head(p) = "_" THEN Like(Tail(s), Tail(p))
    ELSE IF Head(p) = "\\" /\ Tail(p) # ""
      THEN Head(s) = Head(Tail(p)) /\ Like(Tail(s), Tail(Tail(p)))
    ELSE Head(s) = Head(p) /\ Like(Tail(s), Tail(p))

\* column ILIKE pattern, case-insensitive LIKE; NULL ILIKE pattern is not true
ILike(column, pattern) == column.t = "string" /\ Like(Lower(column.v), Lower(pattern))

\* WHERE user_id = $1 AND (title ILIKE $2 OR description ILIKE $2), $2 = `%${keyword}%`
SearchMatches(user, keyword) ==
    {t \in tasks :
        /\ t.user_id = user
        /\ \/ ILike(t.title, "%" \o keyword \o "%")
           \/ ILike(t.description, "%" \o keyword \o "%")}

\* the rows GET /tasks/search may return, in order
SearchRows(user, keyword) == LatestDeadlineFirst(SearchMatches(user, keyword))

SearchOutcome(header, query, rows) ==
    LET auth == Authenticate(header) IN
    IF auth.status # 200 THEN Unchanged(Plain(auth.status))
    ELSE IF Falsy(query.keyword) THEN Unchanged(Reply(400, auth.id))
    ELSE IF "tasks" \notin tables THEN Unchanged(Reply(500, auth.id))
    ELSE Unchanged(Rows(200, auth.id, rows))

-----------------------------------------------------------------------------
(* The task handlers as actions. *)

\* a handler with outcome `out` runs: the store becomes what it leaves
TaskRequest(out, maxTasks) ==
    /\ out.taskSeq <= maxTasks
    /\ tasks' = out.tasks
    /\ taskSeq' = out.taskSeq
    /\ createdBy' = createdBy \cup {[id |-> t.id, user |-> out.resp.user] : t \in out.tasks \ tasks}
    /\ UNCHANGED <<initPc, tables, users, userSeq, pending, now, issued, inflight>>

\* The rows of a read are drawn from the results for req.user.id; a rejected
\* request has no req.user (id 0 owns no task).

CreateTask(header, body, maxTasks) ==
    TaskRequest(CreateOutcome(header, body), maxTasks)

ListTasks(header) ==
    \E rows \in ListRows(Authenticate(header).id) :
        TaskRequest(ListOutcome(header, rows), taskSeq)

UpdateTask(header, id, body) ==
    TaskRequest(UpdateOutcome(header, id, body), taskSeq)

DeleteTask(header, id) ==
    TaskRequest(DeleteOutcome(header, id), taskSeq)

FilterTasks(header, query) ==
    \E rows \in FilterRows(Authenticate(header).id, query) :
        TaskRequest(FilterOutcome(header, query, rows), taskSeq)

\* the keyword of a search query, "" when it has none
Keyword(query) == IF Falsy(query.keyword) THEN "" ELSE query.keyword.v

SearchTasks(header, query) ==
    \E rows \in SearchRows(Authenticate(header).id, Keyword(query)) :
        TaskRequest(SearchOutcome(header, query, rows), taskSeq)

-----------------------------------------------------------------------------
(* Requests.  A profile names the request values and the bounds one        *)
(* specification explores; the handlers are the same under every profile.  *)

RegisterBody(username, email, password) ==
    [username |-> username, email |-> email, password |-> password]

LoginBody(identifier, password) == [emailOrUsername |-> identifier, password |-> password]

TaskBody(title, description, status, priority, deadline) ==
    [title |-> title, description |-> description, status |-> status,
     priority |-> priority, deadline |-> deadline]

FilterQuery(status, priority, due) ==
    [status |-> status, priority |-> priority, due_date |-> due]

SearchQuery(keyword) == [keyword |-> keyword]

\* a token with the payload of t that the server did not sign
Forged(t) == [t EXCEPT !.key = "guessed"]

\* the authorization headers a client can send: none, one of the tokens
\* issued so far and, from a hostile client, a scheme without token, a
\* malformed token or a token signed without the secret
Headers(hostile) ==
    {NoHeader} \cup {Bearer(t) : t \in issued}
    \cup (IF hostile
            THEN {SchemeOnly, Bearer(NoToken)} \cup {Bearer(Forged(t)) : t \in issued}
            ELSE {})

NextOn(P) ==
    \/ \E ok \in P.initOk : InitializeDatabase(ok)
    \/ Tick(TickSeconds, P.maxTicks)
    \/ \E body \in P.registerBodies : RegisterStart(body, P.maxPending)
    \/ \E i \in 1..P.maxPending : RegisterInsert(i, P.maxUserSeq)
    \/ \E body \in P.loginBodies : Login(body, P.maxTokens)
    \/ \E header \in Headers(P.hostile), body \in P.createBodies :
            CreateTask(header, body, P.maxTasks)
    \/ \E header \in Headers(P.hostile) : ListTasks(header)
    \/ \E header \in Headers(P.hostile), id \in 1..(P.maxTasks + 1), body \in P.updateBodies :
            UpdateTask(header, id, body)
    \/ \E header \in Headers(P.hostile), id \in 1..(P.maxTasks + 1) : DeleteTask(header, id)
    \/ \E header \in Headers(P.hostile), query \in P.filterQueries : FilterTasks(header, query)
    \/ \E header \in Headers(P.hostile), query \in P.searchQueries : SearchTasks(header, query)

-----------------------------------------------------------------------------
(* Request values. *)

Ann == RegisterBody(Str("alice"), Str("a@x.com"), Str("pw123456"))

Bob == RegisterBody(Str("bob"), Str("b@x.com"), Str("hunter22"))

AnnLogin == LoginBody(Str("a@x.com"), Str("pw123456"))

BobLogin == LoginBody(Str("bob"), Str("hunter22"))

Milk == TaskBody(Str("buy milk"), Undefined, Undefined, Str("low"), Undefined)

Tea == TaskBody(Str("Tea"), Str("oolong"), Str("pending"), Str("high"), Str("2024-01-02"))

Complete == TaskBody(Undefined, Undefined, Str("completed"), Undefined, Undefined)

Empty == TaskBody(Undefined, Undefined, Undefined, Undefined, Undefined)

NoCriteria == FilterQuery(Undefined, Undefined, Undefined)

\* the fields of a task body
Fields == {"title", "description", "status", "priority", "deadline"}

\* the fields body b carries: present in the JSON, whatever the value
Carried(b) == {f \in Fields : b[f].t # "undefined"}

-----------------------------------------------------------------------------
(* Two owners and their tasks. *)

Owners ==
    [initOk |-> {TRUE},
     registerBodies |-> {Ann, Bob},
     loginBodies |-> {AnnLogin, BobLogin},
     createBodies |-> {Milk, Tea},
     updateBodies |-> {Complete, Empty},
     filterQueries |-> {NoCriteria, FilterQuery(Undefined, Str("low"), Undefined)},
     searchQueries |-> {SearchQuery(Str("milk")), SearchQuery(Str("t"))},
     hostile |-> FALSE,
     maxPending |-> Few,
     maxUserSeq |-> MaxOwners,
     maxTokens |-> MaxOwners,
     maxTicks |-> Few,
     maxTasks |-> MaxTasks]

Next == NextOn(Owners)

Spec == Init /\ [][Next]_vars

-----------------------------------------------------------------------------
(* Accounts: registrations that overlap, collide or are invalid, logins    *)
(* that fail, hostile authorization headers, tokens that expire, and a     *)
(* schema initialization that may fail.                                    *)

Accounts ==
    [initOk |-> {TRUE, FALSE},
     registerBodies |-> {Ann, Bob,
                         RegisterBody(Str("bob"), Str("a@x.com"), Str("hunter22")),
                         RegisterBody(Str("alice"), Undefined, Str("pw123456")),
                         RegisterBody(Str("alice"), Str("a@x.com"), Num(123456))},
     loginBodies |-> {AnnLogin, BobLogin,
                      LoginBody(Str("bob"), Str("pw123456")),
                      LoginBody(Str("eve"), Str("pw123456")),
                      LoginBody(Str("bob"), Undefined)},
     createBodies |-> {Milk},
     updateBodies |-> {Complete},
     filterQueries |-> {NoCriteria},
     searchQueries |-> {SearchQuery(Str("milk"))},
     hostile |-> TRUE,
     maxPending |-> MaxPending,
     maxUserSeq |-> MaxUserSeq,
     maxTokens |-> MaxTokens,
     maxTicks |-> MaxTicks,
     maxTasks |-> Few]

NextAccounts == NextOn(Accounts)

SpecAccounts == Init /\ [][NextAccounts]_vars

-----------------------------------------------------------------------------
(* Fields: one owner, and updates that carry up to two of the five fields  *)
(* or all five, each absent, null, empty, valid or invalid.                *)

FieldValues ==
    [title |-> {Undefined, Str("Tea")},
     description |-> {Undefined, Null, Str("")},
     status |-> {Undefined, Str("archived")},
     priority |-> {Undefined, Str("urgent")},
     deadline |-> {Undefined, Str("2024-01-02"), Str("soon")}]

FieldBodies ==
    {b \in {TaskBody(t, d, st, p, dl) :
                t \in FieldValues.title, d \in FieldValues.description,
                st \in FieldValues.status, p \in FieldValues.priority,
                dl \in FieldValues.deadline} :
        Cardinality(Carried(b)) \in {0, 1, 2, 5}}

FieldsProfile ==
    [initOk |-> {TRUE},
     registerBodies |-> {Ann},
     loginBodies |-> {AnnLogin},
     createBodies |-> {Milk,
                       TaskBody(Str("buy milk"), Undefined, Str("done"), Str("low"), Undefined),
                       TaskBody(Str("buy milk"), Undefined, Undefined, Str("urgent"), Undefined),
                       TaskBody(Undefined, Undefined, Undefined, Str("low"), Undefined),
                       TaskBody(Str("buy milk"), Undefined, Undefined, Str("low"), Str("soon"))},
     updateBodies |-> FieldBodies,
     filterQueries |-> {NoCriteria},
     searchQueries |-> {SearchQuery(Str("milk"))},
     hostile |-> FALSE,
     maxPending |-> Few,
     maxUserSeq |-> Few,
     maxTokens |-> Few,
     maxTicks |-> Few,
     maxTasks |-> MaxTasks]

NextFields == NextOn(FieldsProfile)

SpecFields == Init /\ [][NextFields]_vars

-----------------------------------------------------------------------------
(* What clients can ask in a state, and what the reads answer. *)

\* every authorization header, hostile ones included
AnyHeader == Headers(TRUE)

\* the headers the guard admits
Admitted == {h \in AnyHeader : Authenticate(h).status = 200}

Range(s) == {s[i] : i \in 1..Len(s)}

AnyFilter ==
    {FilterQuery(st, p, d) :
        st \in {Undefined, Str("pending"), Str("completed")},
        p \in {Undefined, Str("low"), Str("high")},
        d \in {Undefined, Str("2024-01-02")}}

AnySearch == {SearchQuery(Str(k)) : k \in {"milk", "t", "o", "%"}}

\* the responses the three reads can give to header h
ReadResponses(h) ==
    {ListOutcome(h, rows).resp : rows \in ListRows(Authenticate(h).id)}
    \cup UNION {{FilterOutcome(h, q, rows).resp : rows \in FilterRows(Authenticate(h).id, q)} :
                q \in AnyFilter}
    \cup UNION {{SearchOutcome(h, q, rows).resp :
                    rows \in SearchRows(Authenticate(h).id, Keyword(q))} :
                q \in AnySearch}

\* the tasks some read returns to header h
Visible(h) == UNION {Range(r.rows) : r \in ReadResponses(h)}

-----------------------------------------------------------------------------
(* C1: owner isolation.  Whatever has happened, every task that list,      *)
(* filter or search returns to a request admitted as owner B has user_id   *)
(* B and was created by a request admitted as B; a task created by another *)
(* owner is in none of B's results.                                        *)
OwnerIsolation ==
    \A h \in Admitted :
        \A t \in Visible(h) :
            /\ t.user_id = h.token.id
            /\ \A c \in createdBy : c.id = t.id => c.user = h.token.id

\* an owner with a token reads tasks of their own while another owner has
\* tasks that match the same list, filter and search
OwnerIsolationWitness ==
    \E h \in Admitted :
        /\ \E t \in Visible(h) : t.title = Str("buy milk")
        /\ \E t \in tasks : t.user_id # h.token.id /\ t.title = Str("buy milk")

-----------------------------------------------------------------------------
(* C2: enumeration invariant.  Every stored task has its priority in       *)
(* {low, medium, high} and its status either unset or in                   *)
(* {pending, in-progress, completed}.  PUT /tasks/:id checks neither.      *)
EnumerationInvariant ==
    \A t \in tasks :
        /\ t.priority \in {Str(p) : p \in validPriorities}
        /\ t.status = Null \/ t.status \in {Str(st) : st \in validStatuses}

-----------------------------------------------------------------------------
(* C3: owner immutability.  A stored task has one owner id, the identity   *)
(* of the request that created it, and no step changes the owner id, the   *)
(* id or created_at of a task that stays in the store.                     *)
OwnerImmutable ==
    [][/\ \A t \in tasks : \A u \in tasks' :
              u.id = t.id => u.user_id = t.user_id /\ u.created_at = t.created_at
       /\ \A u, w \in tasks' : u.id = w.id => u = w
       /\ \A u \in tasks' :
              /\ Cardinality({c \in createdBy' : c.id = u.id}) = 1
              /\ \A c \in createdBy' : c.id = u.id => c.user = u.user_id]_vars

\* a task updated by its owner while a second owner holds a token and a task
OwnerImmutableWitness ==
    /\ \E t \in tasks : t.status = Str("completed") /\ t.title = Str("buy milk")
    /\ \E t, u \in tasks : t.user_id # u.user_id
    /\ Cardinality({k.id : k \in issued}) = 2

-----------------------------------------------------------------------------
(* Partial update of one task. *)

\* the column value a carried request value denotes
Denoted(f, v) ==
    IF f = "deadline" /\ v.t = "string" THEN Timestamp(TimestampIn(v.v)) ELSE v

\* an update of task `old` by `body` with outcome `out` replaces exactly the
\* fields in `replaced`, keeps every other column and every other task
ReplacesExactly(old, body, out, replaced) ==
    LET new == out.resp.rows[1] IN
    /\ Len(out.resp.rows) = 1
    /\ \A f \in Fields :
          new[f] = (IF f \in replaced THEN Denoted(f, body[f]) ELSE old[f])
    /\ new.id = old.id
    /\ new.user_id = old.user_id
    /\ new.created_at = old.created_at
    /\ out.tasks = (tasks \ {old}) \cup {new}
    /\ out.taskSeq = taskSeq

\* the fields body b carries with a value other than null
CarriedNonNull(b) == {f \in Fields : b[f].t \notin {"undefined", "null"}}

\* every successful update of FieldBodies replaces the fields it carries
\* (with a value other than null, unless nullReplaces) and only those
UpdatesReplace(nullReplaces) ==
    \A h \in Admitted, id \in 1..(MaxTasks + 1), body \in FieldBodies :
        LET out == UpdateOutcome(h, id, body) IN
        out.resp.status = 200 =>
            \E old \in tasks :
                /\ old.id = id
                /\ old.user_id = h.token.id
                /\ ReplacesExactly(old, body, out,
                        IF nullReplaces THEN Carried(body) ELSE CarriedNonNull(body))

(* C4 as claimed: a successful update replaces each field the request      *)
(* carries by the carried value and keeps each field it omits; nothing     *)
(* else in the store changes.                                              *)
PartialUpdateAsClaimed == UpdatesReplace(TRUE)

(* C4, amended: a successful update replaces each field the request        *)
(* carries with a value other than null by that value, keeps each field    *)
(* that is omitted or null, keeps id, owner and created_at, and leaves     *)
(* every other task unchanged.                                             *)
PartialUpdate == UpdatesReplace(FALSE)

\* one task updated in title and description with its other fields as
\* created, beside a task that is still as created
PartialUpdateWitness ==
    \E t, u \in tasks :
        /\ t.id # u.id
        /\ t.title = Str("Tea") /\ t.description = Str("")
        /\ t.priority = Str("low") /\ t.status = Null /\ t.deadline = Null
        /\ u.title = Str("buy milk") /\ u.description = Null

-----------------------------------------------------------------------------
(* Updates and deletes of a task that is missing or someone else's. *)

\* updates that carry a field and whose deadline, if any, is a timestamp
ValidUpdates == {Complete, Tea, TaskBody(Str("Tea"), Null, Undefined, Undefined, Undefined)}

\* no task has this id, or the task with this id belongs to another owner
MissingOrForeign(id, user) == \A t \in tasks : t.id = id => t.user_id # user

(* C5: merged NotFound with no effect.  Once the tasks table exists, an    *)
(* update that carries a field, or a delete, by an admitted owner whose    *)
(* task id does not exist or belongs to another owner answers 404, with    *)
(* the same response in both cases, and leaves every task and the id       *)
(* sequence as they were.                                                  *)
NotFoundNoEffect ==
    \A h \in Admitted, id \in 1..(MaxTasks + 1) :
        ("tasks" \in tables /\ MissingOrForeign(id, h.token.id)) =>
            /\ \A body \in ValidUpdates :
                  UpdateOutcome(h, id, body) = Outcome(Reply(404, h.token.id), tasks, taskSeq)
            /\ DeleteOutcome(h, id) = Outcome(Reply(404, h.token.id), tasks, taskSeq)

\* an owner with a token and a task of their own can name another owner's
\* task and an id that no task has
NotFoundNoEffectWitness ==
    \E h \in Admitted, t \in tasks :
        /\ t.user_id # h.token.id
        /\ \E u \in tasks : u.user_id = h.token.id
        /\ \E id \in 1..(MaxTasks + 1) : \A u \in tasks : u.id # id
        /\ UpdateOutcome(h, t.id, Complete).resp.status = 404
        /\ DeleteOutcome(h, t.id).tasks = tasks

-----------------------------------------------------------------------------
(* The guard in front of the six task handlers. *)

\* the outcomes the six task handlers can have for header h
GuardedOutcomes(h) ==
    {CreateOutcome(h, Milk), UpdateOutcome(h, 1, Complete), DeleteOutcome(h, 1)}
    \cup {ListOutcome(h, rows) : rows \in ListRows(Authenticate(h).id)}
    \cup {FilterOutcome(h, NoCriteria, rows) :
            rows \in FilterRows(Authenticate(h).id, NoCriteria)}
    \cup {SearchOutcome(h, SearchQuery(Str("milk")), rows) :
            rows \in SearchRows(Authenticate(h).id, "milk")}

\* the token is malformed, signed with another key, or an hour old or older
BadToken(token) ==
    \/ token.malformed
    \/ token.key # JwtSecret
    \/ now - token.iat >= ExpiresIn

\* the handler sent only the status: no rows read, nothing written
Rejected(out, status) ==
    /\ out.resp = Plain(status)
    /\ out.tasks = tasks
    /\ out.taskSeq = taskSeq

(* C6: authorization guard.  A task request without authorization header   *)
(* or without token segment is answered 401; one whose token is malformed, *)
(* wrongly signed or issued an hour ago or earlier is answered 403; both   *)
(* read no rows and leave the store unchanged.  Every other request        *)
(* carries a token that a successful login issued less than an hour ago,   *)
(* and acts as the user id in that token: it answers for that user, and    *)
(* every task it adds or returns has that user_id.                         *)
AuthorizationGuard ==
    \A h \in AnyHeader : \A out \in GuardedOutcomes(h) :
        IF h.kind # "token" THEN Rejected(out, 401)
        ELSE IF BadToken(h.token) THEN Rejected(out, 403)
        ELSE /\ h.token \in issued
             /\ now - h.token.iat < ExpiresIn
             /\ out.resp.status \notin {401, 403}
             /\ out.resp.user = h.token.id
             /\ \A t \in (out.tasks \ tasks) \cup Range(out.resp.rows) :
                    t.user_id = h.token.id

\* a token that has expired and one that has not, both issued by logins,
\* while a task is stored and a user can still create one
AuthorizationGuardWitness ==
    /\ \E t \in issued : now - t.iat >= ExpiresIn
    /\ \E t \in issued :
          /\ now - t.iat < ExpiresIn
          /\ DeleteOutcome(Bearer(t), 1).resp.status = 200
          /\ DeleteOutcome(Bearer(Forged(t)), 1).resp.status = 403
    /\ tasks # {}

-----------------------------------------------------------------------------
(* Registrations with an email that is already stored. *)

\* valid registrations with this email: the ones waiting for their INSERT
\* and any other username and password
RegistrationsWith(email) ==
    {pending[i] : i \in {j \in 1..Len(pending) : pending[j].email = email}}
    \cup {[username |-> n, email |-> email, password |-> BcryptHash(p)] :
            n \in {"alice", "bob", "eve"}, p \in {"pw123456", "hunter22"}}

(* C7: email uniqueness.  A registration that passes validation and whose  *)
(* email is the email of a stored user is answered 409, whatever its       *)
(* username and password, and adds no user; no two stored users share an   *)
(* email, also when registrations with the same email overlap.             *)
EmailUnique ==
    /\ \A u \in users : \A r \in RegistrationsWith(u.email) :
          /\ RegisterOutcome(r).resp = Plain(409)
          /\ RegisterOutcome(r).users = users
    /\ \A u, w \in users : u.email = w.email => u = w

\* a user is stored, one registration with the same email and another
\* username has been refused and one more is waiting for its INSERT
EmailUniqueWitness ==
    \E u \in users : \E i \in 1..Len(pending) :
        /\ pending[i].email = u.email
        /\ pending[i].username # u.username
        /\ userSeq > Cardinality(users)

-----------------------------------------------------------------------------
(* C8: startup ordering.  Whenever a handler has acted (a registration is  *)
(* waiting for its INSERT, a user or a task is stored, a token has been    *)
(* issued), initializeDatabase has created both tables.  app.listen runs   *)
(* before initializeDatabase is called, the call is not awaited and its    *)
(* failure is only logged, so requests are handled while initPc is still   *)
(* "users" or "tasks", or after it has become "failed".                    *)
StartupOrdering ==
    (pending # <<>> \/ users # {} \/ issued # {} \/ tasks # {}) => initPc = "done"

-----------------------------------------------------------------------------
(* Deleted tasks. *)

\* no stored task has this id
Gone(id) == \A t \in tasks : t.id # id

(* C9: delete is permanent.  In every step, a task id that was created and *)
(* is no longer stored stays absent from the store, and once an id is      *)
(* absent no list, filter or search of any admitted owner returns a task   *)
(* with that id: a later create never reuses it.                           *)
DeletePermanent ==
    /\ [][\A c \in createdBy : Gone(c.id) => Gone(c.id)']_vars
    /\ [](\A c \in createdBy :
            Gone(c.id) => \A h \in Admitted : \A t \in Visible(h) : t.id # c.id)

\* an owner has deleted their first task and created another one since,
\* which their reads return
DeletePermanentWitness ==
    \E c \in createdBy : \E h \in Admitted :
        /\ h.token.id = c.user
        /\ Gone(c.id)
        /\ \E t \in Visible(h) : t.id > c.id

-----------------------------------------------------------------------------
(* C10: filter without criteria equals list.  In every state and for every *)
(* admitted owner, what GET /tasks/filter without status, priority and     *)
(* due_date returns is what GET /tasks returns: the same rows in the same  *)
(* order, also when tasks of the owner have equal created_at.  Both        *)
(* statements order by created_at alone, so neither fixes the order of     *)
(* rows with equal created_at.                                             *)
FilterWithoutCriteriaIsList ==
    \A h \in Admitted :
        \A listed \in ListRows(h.token.id), filtered \in FilterRows(h.token.id, NoCriteria) :
            /\ ListOutcome(h, listed).resp.status = FilterOutcome(h, NoCriteria, filtered).resp.status
            /\ ListOutcome(h, listed).resp.rows = FilterOutcome(h, NoCriteria, filtered).resp.rows

-----------------------------------------------------------------------------
(* C11: store failure maps to InternalError.  When the statement of a      *)
(* handler fails because its table is missing, the caller receives one     *)
(* 500 response: for a registration waiting for its INSERT, for a login    *)
(* that passes validation, and for each of the six task handlers behind    *)
(* the guard.  The catch block of POST /register names an undefined        *)
(* variable on this path and sends nothing.                                *)
StoreFailureIsInternalError ==
    /\ "users" \notin tables =>
          /\ \A i \in 1..Len(pending) : RegisterOutcome(pending[i]).resp = Plain(500)
          /\ \A body \in {AnnLogin, BobLogin} : LoginOutcome(body, NoUser) = Plain(500)
    /\ "tasks" \notin tables =>
          \A h \in Admitted : \A out \in GuardedOutcomes(h) :
              out.resp = Reply(500, h.token.id)

-----------------------------------------------------------------------------
(* Logins. *)

\* logins that pass validation: every identifier with every password
AnyLogin ==
    {LoginBody(Str(i), Str(p)) :
        i \in {"a@x.com", "b@x.com", "alice", "bob", "eve"},
        p \in {"pw123456", "hunter22", "letmein"}}

\* the responses POST /login can give to body, one for each row that may be first
LoginResponses(body) ==
    {LoginOutcome(body, user) : user \in FirstRows(body.emailOrUsername.v)}

\* the stored users whose email or username is the identifier of body
Named(body) ==
    {u \in users : u.email = body.emailOrUsername.v \/ u.username = body.emailOrUsername.v}

(* C12: login failure outcomes.  Once the users table exists, a login that *)
(* passes validation is answered 404 when no stored user has the           *)
(* identifier as email or username, and 401 when some do but the password  *)
(* is the password of none of them; neither answer carries a token.  A     *)
(* token is only sent with 200, for a stored user with that identifier     *)
(* whose stored hash the password matches, and carries that user's id and  *)
(* username; every token issued so far carries the id of a stored user.    *)
LoginFailures ==
    /\ "users" \in tables =>
          \A body \in AnyLogin : \A r \in LoginResponses(body) :
              /\ Named(body) = {} => r = Plain(404)
              /\ (/\ Named(body) # {}
                  /\ \A u \in Named(body) : u.password # BcryptHash(body.password.v))
                      => r = Plain(401)
              /\ r.status # 200 => r.token = NoToken
              /\ r.status = 200 =>
                    \E u \in Named(body) :
                        /\ u.password = BcryptHash(body.password.v)
                        /\ r.token = JwtSign(u, now)
                        /\ r.token.id = u.id
    /\ \A t \in issued : \E u \in users : u.id = t.id /\ u.username = t.username

\* a user holds a token while a login with their email and another
\* password is refused 401 and a login with an unknown identifier 404
LoginFailuresWitness ==
    /\ \E u \in users, t \in issued : t.id = u.id /\ u.email = "a@x.com"
    /\ LoginResponses(LoginBody(Str("a@x.com"), Str("letmein"))) = {Plain(401)}
    /\ LoginResponses(LoginBody(Str("eve"), Str("pw123456"))) = {Plain(404)}
    /\ Cardinality(users) > 1

-----------------------------------------------------------------------------
(* Creates. *)

\* create bodies: each field absent, null, empty, valid or invalid
AnyCreate ==
    {TaskBody(t, d, st, p, dl) :
        t \in {Undefined, Str(""), Str("buy milk")},
        d \in {Undefined, Str("oolong")},
        st \in {Undefined, Null, Str(""), Str("pending"), Str("done")},
        p \in {Undefined, Str("low"), Str("urgent")},
        dl \in {Undefined, Str("2024-01-02")}}

\* the body must be refused: no title, no priority, a priority outside its
\* enumeration, or a status that is given and outside its enumeration
MustBeRefused(body) ==
    \/ Falsy(body.title)
    \/ Falsy(body.priority)
    \/ body.priority \notin {Str(p) : p \in validPriorities}
    \/ /\ body.status.t \notin {"undefined", "null"}
       /\ body.status \notin {Str(st) : st \in validStatuses}

\* outcome `out` adds one task of `user` with the values of body, returns
\* it, and keeps every other task
InsertsOne(out, user, body) ==
    /\ out.resp.status = 201
    /\ Len(out.resp.rows) = 1
    /\ LET row == out.resp.rows[1] IN
          /\ Gone(row.id)
          /\ row.user_id = user
          /\ \A f \in Fields : row[f] = Denoted(f, Param(body[f]))
          /\ out.tasks = tasks \cup {row}

(* C13: create validation.  Once the tasks table exists, a create by an    *)
(* admitted owner is answered 400 and inserts nothing when the title or    *)
(* the priority is missing, the priority is outside {low, medium, high},   *)
(* or a status is given that is outside {pending, in-progress, completed}; *)
(* otherwise it inserts one task of that owner with the values given,      *)
(* returns it and keeps every other task.  The handler checks the status   *)
(* only when it is truthy, so the status "" is stored.                     *)
CreateValidation ==
    "tasks" \in tables =>
        \A h \in Admitted, body \in AnyCreate :
            IF MustBeRefused(body)
              THEN CreateOutcome(h, body) = Outcome(Reply(400, h.token.id), tasks, taskSeq)
              ELSE InsertsOne(CreateOutcome(h, body), h.token.id, body)

-----------------------------------------------------------------------------
(* Updates that carry no field, or only empty ones. *)

\* update bodies: nothing, or title and description absent, null, empty or set
AnyUpdate ==
    {TaskBody(t, d, Undefined, p, Undefined) :
        t \in {Undefined, Null, Str(""), Str("Tea")},
        d \in {Undefined, Null, Str(""), Str("oolong")},
        p \in {Undefined, Str("high")}}

(* C14: empty update rejected.  An update by an admitted owner that        *)
(* carries none of title, description, status, priority and deadline is    *)
(* answered 400 and leaves the store unchanged; an update that carries at  *)
(* least one of them, whatever its value, is not answered 400.  The        *)
(* handler tests the values for truthiness, so a body whose fields are     *)
(* all empty strings or null is answered 400 as well.                      *)
EmptyUpdateRejected ==
    \A h \in Admitted, id \in 1..(MaxTasks + 1), body \in AnyUpdate :
        IF Carried(body) = {}
          THEN UpdateOutcome(h, id, body) = Outcome(Reply(400, h.token.id), tasks, taskSeq)
          ELSE UpdateOutcome(h, id, body).resp.status # 400

-----------------------------------------------------------------------------
(* Filters. *)

\* filter queries: each criterion absent or given, the date also unparseable
FilterQueries ==
    {FilterQuery(st, p, d) :
        st \in {Undefined, Str("pending"), Str("completed")},
        p \in {Undefined, Str("low"), Str("high")},
        d \in {Undefined, Str("2024-01-01"), Str("2024-01-02"), Str("soon")}}

\* the dates of the queries that are dates, as instants
Instant(d) ==
    CASE d = Str("2024-01-01") -> 1
      [] d = Str("2024-01-02") -> 2
      [] OTHER -> -1

\* the tasks of user that meet each criterion q gives
Meeting(user, q) ==
    {t \in tasks :
        /\ t.user_id = user
        /\ q.status = Undefined \/ t.status = q.status
        /\ q.priority = Undefined \/ t.priority = q.priority
        /\ q.due_date = Undefined
              \/ (t.deadline # Null /\ t.deadline.v <= Instant(q.due_date))}

-----------------------------------------------------------------------------
(* Searches. *)

\* keywords: letters in either case, and the two characters LIKE reads as
\* wildcards
Keywords == {"milk", "MILK", "oo", "%", "_"}

\* k occurs in s, character for character
Occurs(k, s) == \E i \in 1..(Len(s) - Len(k) + 1) : SubSeq(s, i, i + Len(k) - 1) = k

\* the column is a text in which k occurs, whatever the case of the letters
Contains(column, k) == column.t = "string" /\ Occurs(Lower(k), Lower(column.v))

(* C16: search result.  Once the tasks table exists, a search by an        *)
(* admitted owner without keyword or with an empty one is answered 400; a  *)
(* search with any other keyword, the characters % and _ included, returns *)
(* exactly the owner's tasks whose title or description contains the       *)
(* keyword as it is written, whatever the case of its letters.  The        *)
(* handler puts the keyword into an ILIKE pattern unescaped, so % and _    *)
(* in it match any characters.                                             *)
SearchResult ==
    "tasks" \in tables =>
        \A h \in Admitted :
            /\ \A q \in {SearchQuery(Undefined), SearchQuery(Str(""))} :
                  SearchOutcome(h, q, NoRows).resp = Reply(400, h.token.id)
            /\ \A k \in Keywords : \A rows \in SearchRows(h.token.id, k) :
                  LET resp == SearchOutcome(h, SearchQuery(Str(k)), rows).resp IN
                  /\ resp.status = 200
                  /\ Range(resp.rows) =
                        {t \in TasksOf(h.token.id) :
                            Contains(t.title, k) \/ Contains(t.description, k)}

-----------------------------------------------------------------------------
(* C17: monotonic user ids.  In every step, the users stored stay stored   *)
(* with their ids, and a user the step adds has an id greater than the id  *)
(* of every user stored before, so a registration that starts after        *)
(* another has succeeded gets the greater id, also when refused            *)
(* registrations come between them; the id a registration is answered     *)
(* with is the id of the user it stores, and no two users hold one id.     *)
MonotonicUserIds ==
    /\ [][/\ users \subseteq users'
           /\ \A u \in users' \ users : \A w \in users : u.id > w.id]_vars
    /\ [](/\ \A u, w \in users : u.id = w.id => u = w
          /\ \A i \in 1..Len(pending) :
                LET out == RegisterOutcome(pending[i]) IN
                out.resp.status = 201 =>
                    /\ \A w \in users : out.resp.id > w.id
                    /\ \E u \in out.users \ users : u.id = out.resp.id)

\* two users stored around a refused registration: the ids 1 and 3 are
\* held, 2 is not
MonotonicUserIdsWitness ==
    /\ \E u, w \in users : u.id = 1 /\ w.id = 3
    /\ \A u \in users : u.id # 2

-----------------------------------------------------------------------------
(* Task requests that overlap.  A handler runs its guard and its checks    *)
(* when the request arrives and then awaits one statement; other requests  *)
(* are handled while it waits.  The statement itself is atomic.            *)

\* task requests awaiting their statement at once
MaxInflight == 2

\* the request is answered before any statement is sent
Refused(op, header, body) ==
    \/ Authenticate(header).status # 200
    \/ op = "create" /\ CreateInvalid(body)
    \/ op = "update" /\ NothingToUpdate(body)

\* the handler of a create, update or delete up to its await
AcceptTask(op, header, id, body, maxInflight) ==
    IF Refused(op, header, body)
      THEN UNCHANGED vars
      ELSE /\ Cardinality(inflight) < maxInflight
           /\ inflight' = inflight \cup
                  {[slot |-> CHOOSE n \in 1..maxInflight : \A r \in inflight : r.slot # n,
                    op |-> op, user |-> Authenticate(header).id, id |-> id, body |-> body]}
           /\ UNCHANGED <<initPc, tables, users, userSeq, pending, tasks, taskSeq, now,
                          issued, createdBy>>

\* what the statement of request r does to the store, and the response
Statement(r) ==
    CASE r.op = "create" -> CreateStatement(r.user, r.body)
      [] r.op = "update" -> UpdateStatement(r.user, r.id, r.body)
      [] r.op = "delete" -> DeleteStatement(r.user, r.id)

\* the statement of a waiting request runs and the handler answers
RunStatement(r, maxTasks) ==
    /\ r \in inflight
    /\ Statement(r).taskSeq <= maxTasks
    /\ tasks' = Statement(r).tasks
    /\ taskSeq' = Statement(r).taskSeq
    /\ createdBy' = createdBy \cup
          {[id |-> t.id, user |-> r.user] : t \in Statement(r).tasks \ tasks}
    /\ inflight' = inflight \ {r}
    /\ UNCHANGED <<initPc, tables, users, userSeq, pending, now, issued>>

\* two owners whose creates, updates and deletes overlap
NextRaces ==
    \/ InitializeDatabase(TRUE)
    \/ \E body \in {Ann, Bob} : RegisterStart(body, Few)
    \/ RegisterInsert(Few, MaxOwners)
    \/ \E body \in {AnnLogin, BobLogin} : Login(body, MaxOwners)
    \/ \E header \in Headers(FALSE) : AcceptTask("create", header, 0, Milk, MaxInflight)
    \/ \E header \in Headers(FALSE), id \in 1..MaxTasks, body \in {Complete, Empty} :
            AcceptTask("update", header, id, body, MaxInflight)
    \/ \E header \in Headers(FALSE), id \in 1..MaxTasks :
            AcceptTask("delete", header, id, Empty, MaxInflight)
    \/ \E r \in inflight : RunStatement(r, MaxTasks)

SpecRaces == Init /\ [][NextRaces]_vars

-----------------------------------------------------------------------------
(* Requests run one after the other. *)

\* request r, run alone on the store `before`, leaves `after`: a create adds
\* one row of its user under an id never used, an update rewrites the row
\* of its user with its id if there is one, a delete removes that row;
\* without the tasks table nothing changes
SerialStep(r, before, after) ==
    LET mine == {t \in before : t.id = r.id /\ t.user_id = r.user} IN
    IF "tasks" \notin tables THEN after = before
    ELSE CASE r.op = "create" ->
                \E id \in 1..(MaxTasks + 1) :
                    /\ \A c \in createdBy : c.id # id
                    /\ after = before \cup {TaskRow(id, r.user, r.body, now)}
           [] r.op = "update" ->
                after = (before \ mine) \cup {Updated(t, r.body) : t \in mine}
           [] r.op = "delete" ->
                after = before \ mine

(* C18: atomic repository operations under concurrency.  With creates,     *)
(* updates and deletes of two owners waiting for their statements at the   *)
(* same time, every step that changes the store or answers a request is    *)
(* one waiting request run alone on the store as it is, so the store is    *)
(* always what the requests answered so far give in the order of their     *)
(* statements; the step adds, changes or removes no task of another        *)
(* owner; a task once deleted stays absent; and an update that is still    *)
(* waiting when its task has been deleted is answered 404 and changes      *)
(* nothing.                                                                *)
AtomicOperations ==
    /\ [][(tasks' # tasks \/ (inflight' # inflight /\ inflight' \subseteq inflight)) =>
              \E r \in inflight :
                  /\ inflight' = inflight \ {r}
                  /\ SerialStep(r, tasks, tasks')
                  /\ \A t \in tasks \cup tasks' : t.user_id # r.user => t \in tasks \cap tasks'
                  /\ \A c \in createdBy : Gone(c.id) => Gone(c.id)']_vars
    /\ [](\A r \in inflight :
            (r.op = "update" /\ "tasks" \in tables /\ Gone(r.id)) =>
                Statement(r) = Outcome(Reply(404, r.user), tasks, taskSeq))

\* an update is still waiting although a delete of the same owner that
\* arrived later has removed its task, while the other owner holds a task
AtomicOperationsWitness ==
    \E r \in inflight : \E c \in createdBy :
        /\ r.op = "update" /\ r.id = c.id /\ r.user = c.user
        /\ Gone(c.id)
        /\ \E t \in tasks : t.user_id # r.user

-----------------------------------------------------------------------------
(* C19: own-credentials login always succeeds.  Once the users table       *)
(* exists, a login with a stored user's own email or own username and the  *)
(* password that user registered with is answered 200 with a token that    *)
(* carries that user's id, whoever else is registered.  POST /login takes  *)
(* the first row whose email or username is the identifier, and usernames  *)
(* are not unique.                                                         *)
OwnLoginSucceeds ==
    "users" \in tables =>
        \A u \in users : \A p \in {"pw123456", "hunter22"} :
            u.password = BcryptHash(p) =>
                \A identifier \in {u.email, u.username} :
                    \A r \in LoginResponses(LoginBody(Str(identifier), Str(p))) :
                        r.status = 200 /\ r.token.id = u.id

-----------------------------------------------------------------------------
(* C20: single response per request.  On every path of every handler the   *)
(* handler sends once: the refusal of an invalid registration, the answer  *)
(* to a registration after its INSERT, each answer of a login, and each    *)
(* answer of the six task handlers, the rejections of the guard included,  *)
(* which also leave the store alone.  POST /register sends twice on its    *)
(* invalid-input path and not at all when its INSERT fails for another     *)
(* reason than a duplicate.                                                *)
SingleResponse ==
    /\ \A h \in AnyHeader : \A out \in GuardedOutcomes(h) :
          /\ out.resp.sends = 1
          /\ out.resp.status \in {401, 403} => out.tasks = tasks
    /\ \A body \in Accounts.loginBodies :
          IF Falsy(body.emailOrUsername) \/ Falsy(body.password)
            THEN LoginOutcome(body, NoUser).sends = 1
            ELSE \A r \in LoginResponses(body) : r.sends = 1
    /\ \A i \in 1..Len(pending) : RegisterOutcome(pending[i]).resp.sends = 1
    /\ \A body \in Accounts.registerBodies :
          RegisterInvalid(body) => RegisterRefusal.sends = 1

====
